---- MODULE Spec2Model ----
(***************************************************************************)
(* Model of scripts/generate_aws_events.py: the schema-driven synthetic    *)
(* event generator (generate_value_for_property,                           *)
(* generate_object_from_schema, generate_event_from_schema).               *)
(*                                                                         *)
(* Representation.  Python strings are TLA+ strings.  A JSON mapping is a  *)
(* function over its keys, except the value of "properties", which is the  *)
(* sequence of its entries [name, schema] in declaration order (the order  *)
(* dict.items() iterates in).  A JSON value that is not a mapping where    *)
(* the code expects one is a record with the field "json".  Generated      *)
(* values are tagged: VStr, VInt, VBool, VArr, VObj.  Every random draw   *)
(* and every clock read is a choice from a small set.                      *)
(***************************************************************************)
EXTENDS Integers, Sequences, FiniteSets, TLC

(***************************************************************************)
(* Python string operations                                                *)
(***************************************************************************)

StartsWith(s, p) == Len(s) >= Len(p) /\ SubSeq(s, 1, Len(p)) = p

EndsWith(s, p) == Len(s) >= Len(p) /\ SubSeq(s, Len(s) - Len(p) + 1, Len(s)) = p

\* sub in s
Contains(s, sub) ==
    \E i \in 1..(Len(s) - Len(sub) + 1) : SubSeq(s, i, i + Len(sub) - 1) = sub

\* s.find(sub) + 1, or 0 when sub does not occur
Find(s, sub) ==
    IF Contains(s, sub)
    THEN CHOOSE i \in 1..(Len(s) - Len(sub) + 1) :
            /\ SubSeq(s, i, i + Len(sub) - 1) = sub
            /\ \A j \in 1..(i - 1) : SubSeq(s, j, j + Len(sub) - 1) # sub
    ELSE 0

\* s.replace(old, new): every non-overlapping occurrence, left to right
RECURSIVE Replace(_, _, _)
Replace(s, old, new) ==
    IF Len(s) < Len(old) THEN s
    ELSE IF SubSeq(s, 1, Len(old)) = old
         THEN new \o Replace(SubSeq(s, Len(old) + 1, Len(s)), old, new)
         ELSE SubSeq(s, 1, 1) \o Replace(SubSeq(s, 2, Len(s)), old, new)

\* s.split(sep)[0]
SplitFirst(s, sep) ==
    IF Contains(s, sep) THEN SubSeq(s, 1, Find(s, sep) - 1) ELSE s

\* s.split(sep)[-1]
RECURSIVE SplitLast(_, _)
SplitLast(s, sep) ==
    IF Contains(s, sep)
    THEN SplitLast(SubSeq(s, Find(s, sep) + Len(sep), Len(s)), sep)
    ELSE s

UpperCase == "ABCDEFGHIJKLMNOPQRSTUVWXYZ"
LowerCase == "abcdefghijklmnopqrstuvwxyz"

LowerChar(c) ==
    IF Contains(UpperCase, c)
    THEN SubSeq(LowerCase, Find(UpperCase, c), Find(UpperCase, c))
    ELSE c

\* s.lower()
RECURSIVE Lower(_)
Lower(s) ==
    IF s = "" THEN "" ELSE LowerChar(SubSeq(s, 1, 1)) \o Lower(SubSeq(s, 2, Len(s)))

\* x in lst, for a list
InList(x, lst) == \E i \in 1..Len(lst) : lst[i] = x

(***************************************************************************)
(* JSON mappings                                                           *)
(***************************************************************************)

EmptyMap == <<>>

IsMapping(d) == "json" \notin DOMAIN d

JsonStr(s) == [json |-> "string", s |-> s]
JsonNum(n) == [json |-> "number", n |-> n]

\* d.get(key, default), d a mapping
Get(d, key, default) == IF key \in DOMAIN d THEN d[key] ELSE default

\* properties.get(name, default), properties an ordered mapping
PropGet(properties, name, default) ==
    IF \E i \in 1..Len(properties) : properties[i].name = name
    THEN properties[CHOOSE i \in 1..Len(properties) : properties[i].name = name].schema
    ELSE default

PropNames(properties) == {properties[i].name : i \in 1..Len(properties)}

(***************************************************************************)
(* Generated values                                                        *)
(***************************************************************************)

VStr(s) == [t |-> "str", s |-> s]
VInt(n) == [t |-> "int", n |-> n]
VBool(b) == [t |-> "bool", b |-> b]
VArr(a) == [t |-> "arr", a |-> a]
VObj(f) == [t |-> "obj", f |-> f]

\* d[key] = value on a dict held as a function
Put(f, key, value) == [k \in DOMAIN f \cup {key} |-> IF k = key THEN value ELSE f[k]]

(***************************************************************************)
(* Randomness and the clock                                                *)
(***************************************************************************)

\* ''.join(random.choice('0123456789') for _ in range(12))
generate_aws_account_id == {"123456789012", "000000000007"}

\* str(uuid.uuid4())
Uuid4 == {"3f2b8c1e-9a4d-4c6e-8b1a-5d7e9f0a1b2c", "0a1b2c3d-4e5f-4a6b-9c7d-8e9f0a1b2c3d"}

\* uuid.uuid4().hex[:8]
Hex8(u) == SubSeq(Replace(u, "-", ""), 1, 8)

\* fake.word()
FakeWord == {"alpha", "beta"}

FakeIpv4 == {"192.0.2.17"}
FakeMd5 == {"9e107d9d372bb6826bd81d3542a419d6"}
FakeFileName == {"report.csv"}

\* datetime.now(timezone.utc).isoformat(); no fraction when microsecond = 0
UtcNowIso == {"2024-05-01T12:00:00.123456+00:00", "2024-05-01T12:00:01+00:00"}

\* random.randint(1, 10000)
RandInt == {1, 10000}

\* random.randint(1, 3)
FanOut == 1..3

(***************************************************************************)
(* generate_aws_account_id, generate_arn, generate_value_for_property      *)
(***************************************************************************)

DEFAULT_REGION == "eu-west-2"

\* f"{fake.word()}-{uuid.uuid4().hex[:8]}"
ResourceIds == {w \o "-" \o Hex8(u) : w \in FakeWord, u \in Uuid4}

\* generate_arn(service, resource_type) with region, account_id and resource_id
\* left to their defaults, as every caller does
generate_arn(service, resource_type) ==
    {IF service = "s3"
     THEN "arn:aws:s3:::" \o resource_id
     ELSE "arn:aws:" \o service \o ":" \o DEFAULT_REGION \o ":" \o account_id
              \o ":" \o resource_type \o "/" \o resource_id :
        account_id \in generate_aws_account_id, resource_id \in ResourceIds}

\* What a call does next: return a value, raise, or call on (a new frame).
Return(v) == [k |-> "return", v |-> v]
Raise(exc) == [k |-> "raise", exc |-> exc]
Call(frame) == [k |-> "call", frame |-> frame]

\* The frame of generate_object_from_schema(schema): the loop index and obj
ObjFrame(schema) ==
    [fn |-> "generate_object_from_schema", schema |-> schema, i |-> 1, obj |-> EmptyMap]

\* The frame of the list comprehension of line 89: n elements to synthesize
ArrFrame(item_name, items_schema, n) ==
    [fn |-> "generate_value_for_property", property_name |-> item_name,
     items_schema |-> items_schema, n |-> n, acc |-> <<>>]

\* {fake.word(): fake.word() for _ in range(n)}: a later entry overwrites
WordDict(n) ==
    {[key \in {kv[i][1] : i \in 1..n} |->
        VStr(kv[CHOOSE i \in 1..n : /\ kv[i][1] = key
                                    /\ \A j \in (i + 1)..n : kv[j][1] # key][2])] :
        kv \in [1..n -> FakeWord \X FakeWord]}

\* A reordering of lines 57-69: the identifier rule tried before the account rule
NameRule_IdFirst(property_name) ==
    IF property_name = "id" \/ EndsWith(property_name, "Id") THEN "id"
    ELSE IF property_name \in {"account", "account-id", "accountId"} THEN "account"
    ELSE IF property_name = "region" THEN "region"
    ELSE IF \/ property_name = "time"
            \/ EndsWith(property_name, "Time")
            \/ EndsWith(property_name, "At") THEN "time"
    ELSE IF Contains(Lower(property_name), "arn") THEN "arn"
    ELSE IF property_name = "source" THEN "source"
    ELSE "none"

\* Lines 57-69 with the account rule matching by prefix instead of exactly
NameRule_AccountPrefix(property_name) ==
    IF StartsWith(property_name, "account") THEN "account"
    ELSE IF property_name = "region" THEN "region"
    ELSE IF property_name = "id" \/ EndsWith(property_name, "Id") THEN "id"
    ELSE IF \/ property_name = "time"
            \/ EndsWith(property_name, "Time")
            \/ EndsWith(property_name, "At") THEN "time"
    ELSE IF Contains(Lower(property_name), "arn") THEN "arn"
    ELSE IF property_name = "source" THEN "source"
    ELSE "none"

\* lines 57-69: the rule the property's name selects, "none" when it selects none
NameRule(property_name) ==
    IF property_name \in {"account", "account-id", "accountId"} THEN "account"
    ELSE IF property_name = "region" THEN "region"
    ELSE IF property_name = "id" \/ EndsWith(property_name, "Id") THEN "id"
    ELSE IF \/ property_name = "time"
            \/ EndsWith(property_name, "Time")
            \/ EndsWith(property_name, "At") THEN "time"
    ELSE IF Contains(Lower(property_name), "arn") THEN "arn"
    ELSE IF property_name = "source" THEN "source"
    ELSE "none"

\* lines 72-96: the branch the declared type selects
TypeRule(property_name, property_schema) ==
    LET property_type == Get(property_schema, "type", "string") IN      \* line 54
    IF property_type = "string" THEN
        IF EndsWith(Lower(property_name), "name") THEN "string:name"
        ELSE IF Contains(Lower(property_name), "ip") THEN "string:ip"
        ELSE IF Contains(Lower(property_name), "etag") THEN "string:etag"
        ELSE IF Contains(Lower(property_name), "key") THEN "string:key"
        ELSE "string"
    ELSE IF property_type = "number" \/ property_type = "integer" THEN "number"
    ELSE IF property_type = "boolean" THEN "boolean"
    ELSE IF property_type = "array" THEN "array"
    ELSE IF property_type = "object" THEN
        IF "properties" \in DOMAIN property_schema THEN "object:properties"
        ELSE "object"
    ELSE "fallback"

\* The branch of generate_value_for_property that decides the result; line 54
\* raises when property_schema has no get()
Rule(property_name, property_schema) ==
    IF ~IsMapping(property_schema) THEN "AttributeError"
    ELSE IF NameRule(property_name) # "none" THEN NameRule(property_name)
    ELSE TypeRule(property_name, property_schema)

generate_value_for_property(property_name, property_schema) ==
    LET rule == Rule(property_name, property_schema) IN
    CASE rule = "AttributeError" -> {Raise("AttributeError")}
      [] rule = "account" -> {Return(VStr(a)) : a \in generate_aws_account_id}
      [] rule = "region" -> {Return(VStr(DEFAULT_REGION))}
      [] rule = "id" -> {Return(VStr(u)) : u \in Uuid4}
      [] rule = "time" -> {Return(VStr(Replace(now, "+00:00", "Z"))) : now \in UtcNowIso}
      [] rule = "arn" ->
            LET service == IF Contains(property_name, "Arn")
                           THEN Lower(SplitFirst(property_name, "Arn"))
                           ELSE "service"
            IN {Return(VStr(arn)) : arn \in generate_arn(service, "resource")}
      [] rule = "source" -> {Return(VStr("demo.aws." \o w)) : w \in FakeWord}
      [] rule = "string:name" -> {Return(VStr(w1 \o "-" \o w2)) : w1 \in FakeWord, w2 \in FakeWord}
      [] rule = "string:ip" -> {Return(VStr(ip)) : ip \in FakeIpv4}
      [] rule = "string:etag" -> {Return(VStr(h)) : h \in FakeMd5}
      [] rule = "string:key" -> {Return(VStr(w \o "/" \o f)) : w \in FakeWord, f \in FakeFileName}
      [] rule = "string" -> {Return(VStr(w)) : w \in FakeWord}
      [] rule = "number" -> {Return(VInt(n)) : n \in RandInt}
      [] rule = "boolean" -> {Return(VBool(b)) : b \in BOOLEAN}
      [] rule = "array" ->
            {Call(ArrFrame(property_name \o "_item",
                           Get(property_schema, "items", EmptyMap), n)) : n \in FanOut}
      [] rule = "object:properties" -> {Call(ObjFrame(property_schema))}
      [] rule = "object" -> UNION {{Return(VObj(d)) : d \in WordDict(n)} : n \in FanOut}
      [] OTHER -> {Return(VStr(w)) : w \in FakeWord}

(***************************************************************************)
(* Inputs: schema files, regions, property names and descriptors           *)
(***************************************************************************)

Ref(name) == "$ref" :> ("#/components/schemas/" \o name)

Prop(name, schema) == [name |-> name, schema |-> schema]

\* Vendor metadata of the root descriptor
Metas ==
    << ("x-amazon-events-detail-type" :> "Object Created") @@ ("x-amazon-events-source" :> "aws.s3"),
       EmptyMap,
       ("x-amazon-events-detail-type" :> "EC2 Instance State-change Notification")
           @@ ("x-amazon-events-source" :> "aws.ec2"),
       "x-amazon-events-source" :> "aws.partner.aws.io",
       "x-amazon-events-source" :> "myapp.aws.orders" >>

\* The root descriptor's properties
RootProps ==
    << [properties |-> <<Prop("detail", Ref("Detail"))>>],
       EmptyMap,
       [properties |-> <<Prop("detail", Ref("Missing"))>>],
       [properties |-> <<Prop("detail", [type |-> "object"])>>],
       [properties |-> <<Prop("detail", JsonStr("object"))>>] >>

Inner ==
    [properties |-> <<Prop("id", [type |-> "string"]), Prop("flag", [type |-> "boolean"])>>,
     required |-> <<"id">>]

\* The component the root's detail property refers to
Details ==
    << [properties |-> <<Prop("bucketName", [type |-> "string"]),
                         Prop("eTag", [type |-> "string"]),
                         Prop("size", [type |-> "integer"])>>,
        required |-> <<"bucketName">>],
       EmptyMap,
       [properties |-> <<Prop("tags", [type |-> "array", items |-> [type |-> "string"]])>>,
        required |-> <<"tags">>],
       [properties |-> <<Prop("records", [type |-> "array", items |-> Ref("Inner")])>>,
        required |-> <<"records">>],
       [properties |-> <<Prop("inner", Ref("Inner")), Prop("gone", Ref("Missing"))>>,
        required |-> <<"inner", "gone">>],
       [properties |-> <<Prop("requestParameters",
                              [type |-> "object",
                               properties |-> <<Prop("count", [type |-> "number"]),
                                                Prop("owner", Ref("Inner"))>>,
                               required |-> <<"owner">>])>>,
        required |-> <<"requestParameters">>],
       [properties |-> <<Prop("attributes", [type |-> "object"]),
                         Prop("comment", [type |-> "string"])>>],
       [properties |-> <<Prop("state", JsonStr("string"))>>, required |-> <<"state">>],
       [properties |-> <<Prop("sizes", [type |-> "array", items |-> JsonStr("integer")]),
                         Prop("limit", JsonNum(5))>>,
        required |-> <<"sizes">>],
       [properties |-> <<Prop("kind", [type |-> "null"]), Prop("note", EmptyMap)>>],
       [properties |-> <<Prop("next", Ref("Detail"))>>, required |-> <<"next">>],
       [properties |-> <<Prop("inner", Ref("Inner"))>>, required |-> <<"inner">>] >>

Root(m, p) == Metas[m] @@ RootProps[p]

Document(m, p, d) ==
    [components |-> [schemas |-> [AWSEvent |-> Root(m, p), Detail |-> Details[d], Inner |-> Inner]]]

\* What open() and json.load() give: a parsed document, or an error
Loaded(doc) == [ok |-> TRUE, doc |-> doc]
Unreadable == [ok |-> FALSE, doc |-> EmptyMap]

\* Documents without a components table, without schemas, without the root
Broken ==
    << Unreadable,
       Loaded(EmptyMap),
       Loaded([components |-> EmptyMap]),
       Loaded([components |-> [schemas |-> [Detail |-> Details[1], Inner |-> Inner]]]) >>

\* A schema file is named <<"broken", b, 0, 0>> or <<"doc", m, p, d>>
SchemaFiles ==
    {<<"broken", b, 0, 0>> : b \in 1..Len(Broken)}
    \cup {<<"doc", m, p, 1>> : m \in 1..Len(Metas), p \in 1..Len(RootProps)}
    \cup {<<"doc", 1, 1, d>> : d \in 1..Len(Details)}

ReadFile(path) ==
    IF path[1] = "broken" THEN Broken[path[2]]
    ELSE Loaded(Document(path[2], path[3], path[4]))

\* The region argument; "" stands for a falsy one (None)
Regions == {"", "us-east-1"}

PropertyNames ==
    {"account", "account-id", "accountId", "accountArn", "region", "regionId", "id",
     "instanceId", "time", "startTime", "createdAt", "learnAt", "arn", "bucketArn",
     "s3Arn", "source", "sourceIp", "bucketName", "eTag", "objectKey", "size", "tags"}

Descriptors ==
    << [type |-> "string"], [type |-> "integer"], [type |-> "number"],
       [type |-> "boolean"], [type |-> "array", items |-> [type |-> "string"]],
       [type |-> "array"], [type |-> "object"],
       [type |-> "object", properties |-> <<Prop("flag", [type |-> "boolean"])>>,
        required |-> <<"flag">>],
       EmptyMap, [type |-> "null"], JsonStr("string"), JsonNum(5),
       [type |-> "array", items |-> JsonStr("string")] >>

(***************************************************************************)
(* State                                                                   *)
(***************************************************************************)

VARIABLES
    schema_components, \* the module global set at line 140: [defined, table]
    call,              \* the invocation in progress: function and arguments
    pc,                \* where the invocation is
    local,             \* locals of generate_event_from_schema
    stack,             \* frames of the calls below the invocation, top last
    result,            \* how the invocation ended: Return(v) or Raise(exc)
    incl,              \* the outcomes of the random.random() > 0.2 draws made
    fanout,            \* the element counts and random key sets drawn
    last,              \* shape and draws of the preceding invocation, when it
                       \* had the same arguments
    other              \* a second thread's invocation while it is not running

vars == <<schema_components, call, pc, local, stack, result, incl, fanout, last, other>>

VNone == [t |-> "none"]
Pending == [k |-> "pending"]
NoLast == [some |-> FALSE]
NoLocal == [schema |-> EmptyMap, region |-> "", aws_event_schema |-> EmptyMap, event |-> EmptyMap]

\* A thread that has not called anything yet: what is its own of an
\* invocation is its arguments, position, locals, frames and outcome; the
\* module global schema_components belongs to no thread
NotStarted ==
    [call |-> [fn |-> "none", args |-> <<>>], pc |-> "idle", local |-> NoLocal,
     stack |-> <<>>, result |-> Pending, incl |-> <<>>, fanout |-> <<>>]

\* Keys of every object and length of every array; scalars by kind only
RECURSIVE Shape(_)
Shape(v) ==
    CASE v.t = "obj" -> [t |-> "obj", f |-> [key \in DOMAIN v.f |-> Shape(v.f[key])]]
      [] v.t = "arr" -> [t |-> "arr", a |-> [j \in 1..Len(v.a) |-> Shape(v.a[j])]]
      [] OTHER -> [t |-> v.t]

\* What is remembered of a finished invocation for the next one
Remember ==
    IF pc = "done" /\ result.k = "return"
    THEN [some |-> TRUE, shape |-> Shape(result.v), incl |-> incl, fanout |-> fanout]
    ELSE NoLast

Init ==
    /\ schema_components = [defined |-> FALSE, table |-> EmptyMap]
    /\ call = [fn |-> "none", args |-> <<>>]
    /\ pc = "idle"
    /\ local = NoLocal
    /\ stack = <<>>
    /\ result = Pending
    /\ incl = <<>>
    /\ fanout = <<>>
    /\ last = NoLast
    /\ other = NotStarted

\* A caller invokes one of the functions; after an invocation whose outcome
\* is remembered in last, the next one has the same arguments
Invoke(fn, args, start) ==
    /\ pc = "idle"
    /\ call.fn = "none" \/ (call.fn = fn /\ call.args = args)
    /\ call' = [fn |-> fn, args |-> args]
    /\ pc' = start
    /\ stack' = <<>>
    /\ result' = Pending
    /\ incl' = <<>>
    /\ fanout' = <<>>
    /\ UNCHANGED <<schema_components, last, other>>

\* The invocation has ended and its caller goes on; what it returned is
\* remembered for a second run on the same arguments, or forgotten
Finish ==
    /\ pc = "done"
    /\ pc' = "idle"
    /\ \E keep \in BOOLEAN :
        IF keep
        THEN last' = Remember /\ UNCHANGED call
        ELSE last' = NoLast /\ call' = [fn |-> "none", args |-> <<>>]
    /\ local' = NoLocal
    /\ result' = Pending
    /\ incl' = <<>>
    /\ fanout' = <<>>
    /\ UNCHANGED <<schema_components, stack, other>>

(***************************************************************************)
(* generate_event_from_schema(schema_path, region)                         *)
(***************************************************************************)

\* lines 126-130
CallGenerateEvent ==
    \E schema_path \in SchemaFiles, region \in Regions :
        /\ Invoke("generate_event_from_schema", <<schema_path, region>>, "load")
        /\ local' = [NoLocal EXCEPT !.region = IF region = "" THEN DEFAULT_REGION ELSE region]

\* lines 132-137
LoadSchema ==
    /\ pc = "load"
    /\ LET file == ReadFile(call.args[1]) IN
        IF file.ok
        THEN /\ local' = [local EXCEPT !.schema = file.doc]
             /\ pc' = "components"
             /\ UNCHANGED result
        ELSE /\ result' = Return(VNone)
             /\ pc' = "done"
             /\ UNCHANGED local
    /\ UNCHANGED <<schema_components, call, stack, incl, fanout, last, other>>

\* line 140
ComponentsOf(schema) == Get(Get(schema, "components", EmptyMap), "schemas", EmptyMap)

ExtractComponents ==
    /\ pc = "components"
    /\ schema_components' = [defined |-> TRUE, table |-> ComponentsOf(local.schema)]
    /\ pc' = "root"
    /\ UNCHANGED <<call, local, stack, result, incl, fanout, last, other>>

\* "not aws_event_schema": an empty mapping is falsy
Falsy(mapping) == DOMAIN mapping = {}

\* lines 143-146
FindRoot ==
    /\ pc = "root"
    /\ LET aws_event_schema == Get(schema_components.table, "AWSEvent", EmptyMap) IN
        IF Falsy(aws_event_schema)
        THEN /\ result' = Return(VNone)
             /\ pc' = "done"
             /\ UNCHANGED local
        ELSE /\ local' = [local EXCEPT !.aws_event_schema = aws_event_schema]
             /\ pc' = "envelope"
             /\ UNCHANGED result
    /\ UNCHANGED <<schema_components, call, stack, incl, fanout, last, other>>

\* line 153
SourceService(source) == Replace(source, "aws.", "")

\* lines 159-166
Resources(source_service, region, account_id, hex8) ==
    IF source_service = "s3"
    THEN <<"arn:aws:s3:::" \o "example-bucket-" \o hex8>>
    ELSE <<"arn:aws:" \o source_service \o ":" \o region \o ":" \o account_id
               \o ":resource/" \o "test-resource-" \o hex8>>

\* lines 149-178
Envelope(aws_event_schema, region, account_id, resource_uuid, id, now) ==
    LET detail_type == Get(aws_event_schema, "x-amazon-events-detail-type", "Unknown Event")
        source_service == SourceService(Get(aws_event_schema, "x-amazon-events-source", "aws.unknown"))
        source == "demo.aws." \o source_service
        resources == Resources(source_service, region, account_id, Hex8(resource_uuid))
    IN  ("version" :> VStr("0"))
        @@ ("id" :> VStr(id))
        @@ ("detail-type" :> VStr(detail_type))
        @@ ("source" :> VStr(source))
        @@ ("account" :> VStr(account_id))
        @@ ("time" :> VStr(Replace(now, "+00:00", "Z")))
        @@ ("region" :> VStr(region))
        @@ ("resources" :> VArr([j \in 1..Len(resources) |-> VStr(resources[j])]))

BuildEnvelope ==
    /\ pc = "envelope"
    /\ \E account_id \in generate_aws_account_id, resource_uuid \in Uuid4,
          id \in Uuid4, now \in UtcNowIso :
        local' = [local EXCEPT !.event =
                    Envelope(local.aws_event_schema, local.region, account_id,
                             resource_uuid, id, now)]
    /\ pc' = "detail"
    /\ UNCHANGED <<schema_components, call, stack, result, incl, fanout, last, other>>

(***************************************************************************)
(* Calls, returns and exceptions                                           *)
(***************************************************************************)

\* The interpreter's recursion limit, scaled down
MaxDepth == 6

\* The value v returns to the caller whose frame is on top of stk, or to the
\* invocation itself when stk is empty
Deliver(stk, v) ==
    IF Len(stk) = 0
    THEN /\ stack' = <<>>
         /\ IF call.fn = "generate_event_from_schema"
            THEN /\ local' = [local EXCEPT !.event = Put(@, "detail", v)]   \* line 185
                 /\ pc' = "return"
                 /\ UNCHANGED result
            ELSE /\ result' = Return(v)
                 /\ pc' = "done"
                 /\ UNCHANGED local
    ELSE LET top == stk[Len(stk)] IN
         /\ stack' = [stk EXCEPT ![Len(stk)] =
                IF top.fn = "generate_object_from_schema"
                THEN [top EXCEPT !.obj = Put(@, top.schema.properties[top.i].name, v),
                                 !.i = @ + 1]                                \* lines 117-121
                ELSE [top EXCEPT !.acc = Append(@, v)]]                       \* line 89
         /\ UNCHANGED <<local, result, pc>>

\* An exception nobody catches ends the invocation
Propagate(exc) ==
    /\ stack' = <<>>
    /\ result' = Raise(exc)
    /\ pc' = "done"
    /\ UNCHANGED local

\* The caller whose frame is on top of stk takes the outcome o of a call
Do(stk, o) ==
    CASE o.k = "return" -> Deliver(stk, o.v)
      [] o.k = "raise" -> Propagate(o.exc)
      [] o.k = "call" ->
            IF Len(stk) >= MaxDepth
            THEN Propagate("RecursionError")
            ELSE /\ stack' = Append(stk, o.frame)
                 /\ pc' = "materialize"
                 /\ UNCHANGED <<local, result>>

\* The draws that decide fan-out: an array's element count (line 89), the
\* keys of a property-less object (line 94)
NoteFanOut(o) ==
    IF o.k = "call" /\ o.frame.fn = "generate_value_for_property"
    THEN Append(fanout, [n |-> o.frame.n])
    ELSE IF o.k = "return" /\ o.v.t = "obj"
    THEN Append(fanout, [keys |-> DOMAIN o.v.f])
    ELSE fanout

(***************************************************************************)
(* generate_event_from_schema, continued                                   *)
(***************************************************************************)

\* lines 181-184 and 186-191; a missing '$ref' (None) is the empty string.
\* Line 184 reads the global once; line 185 reads it again in LookupDetail
ResolveDetail ==
    /\ pc = "detail"
    /\ LET detail == PropGet(Get(local.aws_event_schema, "properties", <<>>), "detail", EmptyMap) IN
        IF ~IsMapping(detail)
        THEN Propagate("AttributeError")
        ELSE LET detail_schema_ref == Get(detail, "$ref", "")
                 detail_schema_name == SplitLast(detail_schema_ref, "/")
             IN IF detail_schema_ref # ""
                THEN /\ pc' = IF detail_schema_name \in DOMAIN schema_components.table
                                THEN "lookup"
                                ELSE "return"
                     /\ UNCHANGED <<local, stack, result>>
                ELSE \E now \in UtcNowIso :
                        /\ local' = [local EXCEPT !.event = Put(@, "detail",
                              VObj([message |-> VStr("Test event generated for "
                                                      \o local.event["source"].s),
                                    timestamp |-> VStr(now)]))]
                        /\ pc' = "return"
                        /\ UNCHANGED <<stack, result>>
    /\ UNCHANGED <<schema_components, call, incl, fanout, last, other>>

\* line 185: schema_components[detail_schema_name], a second read of the
\* global; a key that is no longer there raises KeyError
LookupDetail ==
    /\ pc = "lookup"
    /\ LET detail == PropGet(Get(local.aws_event_schema, "properties", <<>>), "detail", EmptyMap)
           detail_schema_name == SplitLast(Get(detail, "$ref", ""), "/")
       IN IF detail_schema_name \in DOMAIN schema_components.table
          THEN Do(<<>>, Call(ObjFrame(schema_components.table[detail_schema_name])))
          ELSE Propagate("KeyError")
    /\ UNCHANGED <<schema_components, call, incl, fanout, last, other>>

\* line 193
ReturnEvent ==
    /\ pc = "return"
    /\ result' = Return(VObj(local.event))
    /\ pc' = "done"
    /\ UNCHANGED <<schema_components, call, local, stack, incl, fanout, last, other>>

(***************************************************************************)
(* generate_object_from_schema(schema)                                     *)
(***************************************************************************)

\* Line 110 without its "prop_name in required" test
Included_DrawOnly(prop_name, required, draw) == draw

\* line 110
Included(prop_name, required, draw) == InList(prop_name, required) \/ draw

\* Line 116 found the component in the table; line 117 is still to read it
Lookup(component_name) == [k |-> "lookup", name |-> component_name]

\* lines 112-121: what the included property prop_name is set to
PropertyOutcomes(prop_name, prop_schema, components) ==
    IF IsMapping(prop_schema)
    THEN IF "$ref" \in DOMAIN prop_schema
         THEN LET component_name == SplitLast(prop_schema["$ref"], "/") IN
              IF ~components.defined THEN {Raise("NameError")}
              ELSE IF component_name \in DOMAIN components.table
              THEN {Lookup(component_name)}
              ELSE generate_value_for_property(prop_name, EmptyMap)
         ELSE generate_value_for_property(prop_name, prop_schema)
    ELSE IF prop_schema.json = "string"
         THEN IF Contains(prop_schema.s, "$ref")
              THEN {Raise("TypeError")}
              ELSE generate_value_for_property(prop_name, prop_schema)
         ELSE {Raise("TypeError")}

Top == stack[Len(stack)]

InObject == pc = "materialize" /\ Len(stack) > 0 /\ Top.fn = "generate_object_from_schema"

InArray == pc = "materialize" /\ Len(stack) > 0 /\ Top.fn = "generate_value_for_property"

\* the loop of line 108 has a property left
MoreProperties(frame) ==
    "properties" \in DOMAIN frame.schema /\ frame.i <= Len(frame.schema.properties)

\* one iteration of the loop, lines 108-121
ObjectProperty ==
    /\ InObject
    /\ MoreProperties(Top)
    /\ LET prop == Top.schema.properties[Top.i]
           required == Get(Top.schema, "required", <<>>)
       IN \E draw \in BOOLEAN :
            /\ incl' = IF InList(prop.name, required) THEN incl ELSE Append(incl, draw)
            /\ IF Included(prop.name, required, draw)
               THEN \E o \in PropertyOutcomes(prop.name, prop.schema, schema_components) :
                        /\ IF o.k = "lookup"
                           THEN /\ pc' = "component"
                                /\ UNCHANGED <<local, stack, result>>
                           ELSE Do(stack, o)
                        /\ fanout' = NoteFanOut(o)
               ELSE /\ stack' = [stack EXCEPT ![Len(stack)].i = @ + 1]
                    /\ UNCHANGED <<local, result, pc, fanout>>
    /\ UNCHANGED <<schema_components, call, last, other>>

\* line 117: schema_components[component_name], a second read of the global;
\* a key that is no longer there raises KeyError
LookupComponent ==
    /\ pc = "component"
    /\ LET component_name == SplitLast(Top.schema.properties[Top.i].schema["$ref"], "/")
       IN IF component_name \in DOMAIN schema_components.table
          THEN Do(stack, Call(ObjFrame(schema_components.table[component_name])))
          ELSE Propagate("KeyError")
    /\ UNCHANGED <<schema_components, call, incl, fanout, last, other>>

\* lines 102-103 and 123
ObjectReturn ==
    /\ InObject
    /\ ~MoreProperties(Top)
    /\ Deliver(SubSeq(stack, 1, Len(stack) - 1), VObj(Top.obj))
    /\ UNCHANGED <<schema_components, call, incl, fanout, last, other>>

(***************************************************************************)
(* generate_value_for_property: the list of line 89, and direct calls      *)
(***************************************************************************)

\* one element of the list comprehension
ArrayElement ==
    /\ InArray
    /\ Len(Top.acc) < Top.n
    /\ \E o \in generate_value_for_property(Top.property_name, Top.items_schema) :
        /\ Do(stack, o)
        /\ fanout' = NoteFanOut(o)
    /\ UNCHANGED <<schema_components, call, incl, last, other>>

ArrayReturn ==
    /\ InArray
    /\ Len(Top.acc) = Top.n
    /\ Deliver(SubSeq(stack, 1, Len(stack) - 1), VArr(Top.acc))
    /\ UNCHANGED <<schema_components, call, incl, fanout, last, other>>

CallGenerateValue ==
    \E property_name \in PropertyNames, d \in 1..Len(Descriptors) :
        /\ Invoke("generate_value_for_property", <<property_name, d>>, "value")
        /\ local' = NoLocal

SynthesizeValue ==
    /\ pc = "value"
    /\ \E o \in generate_value_for_property(call.args[1], Descriptors[call.args[2]]) :
        /\ Do(<<>>, o)
        /\ fanout' = NoteFanOut(o)
    /\ UNCHANGED <<schema_components, call, incl, last, other>>

Next ==
    \/ CallGenerateEvent
    \/ LoadSchema
    \/ ExtractComponents
    \/ FindRoot
    \/ BuildEnvelope
    \/ ResolveDetail
    \/ LookupDetail
    \/ ReturnEvent
    \/ ObjectProperty
    \/ LookupComponent
    \/ ObjectReturn
    \/ ArrayElement
    \/ ArrayReturn
    \/ CallGenerateValue
    \/ SynthesizeValue
    \/ Finish

Spec == Init /\ [][Next]_vars

(***************************************************************************)
(* Two threads of one process, each calling generate_event_from_schema     *)
(* once.  The interpreter runs one thread at a time and may switch between *)
(* any two steps; the threads have their own locals and frames and share   *)
(* the module global schema_components.                                    *)
(***************************************************************************)

\* An unreadable file, a file that holds {}, a document whose Detail
\* component is empty, and one whose Detail component refers to Inner
ThreadFiles ==
    {<<"broken", 1, 0, 0>>, <<"broken", 2, 0, 0>>, <<"doc", 1, 1, 2>>, <<"doc", 1, 1, Len(Details)>>}

\* lines 126-130, the region left to its default
ThreadCallsGenerateEvent ==
    \E schema_path \in ThreadFiles :
        /\ Invoke("generate_event_from_schema", <<schema_path, "">>, "load")
        /\ local' = [NoLocal EXCEPT !.region = DEFAULT_REGION]

\* What the running thread has of its own
Running ==
    [call |-> call, pc |-> pc, local |-> local, stack |-> stack,
     result |-> result, incl |-> incl, fanout |-> fanout]

\* The interpreter suspends the running thread and resumes the other one
Switch ==
    /\ other' = Running
    /\ call' = other.call
    /\ pc' = other.pc
    /\ local' = other.local
    /\ stack' = other.stack
    /\ result' = other.result
    /\ incl' = other.incl
    /\ fanout' = other.fanout
    /\ UNCHANGED <<schema_components, last>>

NextThreads ==
    \/ ThreadCallsGenerateEvent
    \/ LoadSchema
    \/ ExtractComponents
    \/ FindRoot
    \/ BuildEnvelope
    \/ ResolveDetail
    \/ LookupDetail
    \/ ReturnEvent
    \/ ObjectProperty
    \/ LookupComponent
    \/ ObjectReturn
    \/ Switch

SpecThreads == Init /\ [][NextThreads]_vars

(***************************************************************************)
(* Properties                                                              *)
(***************************************************************************)

Done == pc = "done"

EventCall == call.fn = "generate_event_from_schema"

ValueCall == call.fn = "generate_value_for_property"

\* The file the invocation of generate_event_from_schema was given
File == ReadFile(call.args[1])

HasComponentsTable(doc) ==
    "components" \in DOMAIN doc /\ "schemas" \in DOMAIN doc["components"]

HasRoot(doc) == HasComponentsTable(doc) /\ "AWSEvent" \in DOMAIN doc["components"]["schemas"]

RootOf(doc) == doc["components"]["schemas"]["AWSEvent"]

\* The invocation returned an event
ReturnedEvent == Done /\ EventCall /\ result.k = "return" /\ result.v.t = "obj"

\* The invocation reported failure: it returned None
ReportedFailure == Done /\ EventCall /\ result.k = "return" /\ result.v.t = "none"

Event == result.v.f

EnvelopeFields ==
    {"version", "id", "detail-type", "source", "account", "time", "region", "resources"}

EnvelopeComplete(event) ==
    /\ EnvelopeFields \subseteq DOMAIN event
    /\ \A key \in EnvelopeFields \ {"resources"} : event[key].t = "str" /\ event[key].s # ""
    /\ event["resources"].t = "arr"
    /\ Len(event["resources"].a) = 1
    /\ StartsWith(event["resources"].a[1].s, "arn:aws:")

\* C1: every schema document with a components table and a root descriptor
\* named AWSEvent, an empty root descriptor included, gives an event with a
\* complete envelope and exactly one resource, which starts with arn:aws:
C1_EventForEveryRootedSchema ==
    (Done /\ EventCall /\ File.ok /\ HasRoot(File.doc) /\ result.k = "return")
        => (result.v.t = "obj" /\ EnvelopeComplete(Event))

\* The root descriptor's detail property is absent, is no reference, or
\* refers to a component that is not in the table
DetailUnresolved(doc) ==
    LET detail == PropGet(Get(RootOf(doc), "properties", <<>>), "detail", EmptyMap) IN
    /\ IsMapping(detail)
    /\ \/ "$ref" \notin DOMAIN detail
       \/ SplitLast(detail["$ref"], "/") \notin DOMAIN doc["components"]["schemas"]

IsFallbackDetail(event) ==
    /\ "detail" \in DOMAIN event
    /\ event["detail"].t = "obj"
    /\ DOMAIN event["detail"].f = {"message", "timestamp"}
    /\ Contains(event["detail"].f["message"].s, event["source"].s)

\* C2: when the detail property is absent, no reference or dangling, the
\* event has a detail field, and it is the two-field fallback object
C2_FallbackDetailWhenUnresolved ==
    (ReturnedEvent /\ DetailUnresolved(File.doc)) => IsFallbackDetail(Event)

\* C3: a document without the components table or without the AWSEvent root
\* is reported as a failure, and no other schema content is
C3_FailureExactlyWhenStructureMissing ==
    (Done /\ EventCall /\ File.ok /\ result.k = "return")
        => (ReportedFailure <=> ~HasRoot(File.doc))

\* s with a leading p removed, s itself when it does not start with p
StripPrefix(s, p) == IF StartsWith(s, p) THEN SubSeq(s, Len(p) + 1, Len(s)) ELSE s

\* C4: the event's source is demo.aws. followed by the raw source label with
\* only a leading aws. removed
C4_SourceStripsLeadingPrefixOnly ==
    ReturnedEvent =>
        Event["source"].s = "demo.aws." \o
            StripPrefix(Get(RootOf(File.doc), "x-amazon-events-source", "aws.unknown"), "aws.")

\* The declared properties of an object schema node, and its required list
Declared(schema) == Get(schema, "properties", <<>>)
Required(schema) == Get(schema, "required", <<>>)

ObjectFrames == {j \in 1..Len(stack) : stack[j].fn = "generate_object_from_schema"}

\* C5: in the object generate_object_from_schema builds, every declared
\* property that the loop has passed and that is listed in required is a key,
\* and every key is a declared property name, whatever the inclusion draws
C5_RequiredPropertiesPresent ==
    \A j \in ObjectFrames :
        LET frame == stack[j] IN
        /\ DOMAIN frame.obj \subseteq PropNames(Declared(frame.schema))
        /\ \A q \in 1..Len(Declared(frame.schema)) :
              (q < frame.i /\ InList(Declared(frame.schema)[q].name, Required(frame.schema)))
                  => Declared(frame.schema)[q].name \in DOMAIN frame.obj

\* The loop is over, a required property is in the object, an optional one is not
C5_Witness ==
    \E j \in ObjectFrames :
        LET frame == stack[j] IN
        /\ ~MoreProperties(frame)
        /\ \E q \in 1..Len(Declared(frame.schema)) :
              /\ InList(Declared(frame.schema)[q].name, Required(frame.schema))
              /\ Declared(frame.schema)[q].name \in DOMAIN frame.obj
        /\ \E q \in 1..Len(Declared(frame.schema)) :
              /\ ~InList(Declared(frame.schema)[q].name, Required(frame.schema))
              /\ Declared(frame.schema)[q].name \notin DOMAIN frame.obj

(***************************************************************************)
(* The documented rules of the value synthesizer, and the formats of what  *)
(* they emit                                                               *)
(***************************************************************************)

RuleOrder == <<"account", "region", "id", "time", "arn", "source">>

Matches(rule, name) ==
    CASE rule = "account" -> name \in {"account", "account-id", "accountId"}
      [] rule = "region" -> name = "region"
      [] rule = "id" -> name = "id" \/ EndsWith(name, "Id")
      [] rule = "time" -> name = "time" \/ EndsWith(name, "Time") \/ EndsWith(name, "At")
      [] rule = "arn" -> Contains(Lower(name), "arn")
      [] rule = "source" -> name = "source"

MatchingRules(name) == {r \in 1..Len(RuleOrder) : Matches(RuleOrder[r], name)}

\* The earliest rule the name matches, "none" if it matches no rule
FirstMatch(name) ==
    LET matching == MatchingRules(name) IN
    IF matching = {} THEN "none"
    ELSE RuleOrder[CHOOSE r \in matching : \A r2 \in matching : r <= r2]

IsDigits(s) == \A j \in 1..Len(s) : Contains("0123456789", SubSeq(s, j, j))

IsAccountId(s) == Len(s) = 12 /\ IsDigits(s)

IsUuid(s) ==
    /\ Len(s) = 36
    /\ \A j \in 1..36 :
          IF j \in {9, 14, 19, 24} THEN SubSeq(s, j, j) = "-"
          ELSE Contains("0123456789abcdef", SubSeq(s, j, j))

\* YYYY-MM-DDTHH:MM:SS, an optional fraction, Z
IsUtcTimestamp(s) ==
    /\ Len(s) >= 20
    /\ EndsWith(s, "Z")
    /\ SubSeq(s, 11, 11) = "T"
    /\ ~Contains(s, "+")

HasFormat(rule, v) ==
    /\ v.t = "str"
    /\ CASE rule = "account" -> IsAccountId(v.s)
         [] rule = "region" -> v.s = DEFAULT_REGION
         [] rule = "id" -> IsUuid(v.s)
         [] rule = "time" -> IsUtcTimestamp(v.s)
         [] rule = "arn" -> StartsWith(v.s, "arn:aws:")
         [] rule = "source" -> StartsWith(v.s, "demo.aws.")

\* The kind of value type dispatch gives for the declared type
KindForType(property_schema) ==
    LET type == Get(property_schema, "type", "string") IN
    CASE type \in {"number", "integer"} -> "int"
      [] type = "boolean" -> "bool"
      [] type = "array" -> "arr"
      [] type = "object" -> "obj"
      [] OTHER -> "str"

ValueName == call.args[1]
ValueSchema == Descriptors[call.args[2]]

\* A direct call of generate_value_for_property on a mapping has ended
ValueDone == Done /\ ValueCall /\ IsMapping(ValueSchema)

\* C6: the rules apply in the order account, region, id, time, arn, source,
\* then type dispatch; the earliest rule the name matches alone decides the
\* result, whatever type is declared
C6_FirstMatchingRuleDecides ==
    ValueDone =>
        LET first == FirstMatch(ValueName) IN
        IF first # "none"
        THEN result.k = "return" /\ HasFormat(first, result.v)
        ELSE result.k = "return" => result.v.t = KindForType(ValueSchema)

\* accountId, declared as an array, came out as an account id
C6_Witness ==
    /\ ValueDone
    /\ ValueName = "accountId"
    /\ Cardinality(MatchingRules(ValueName)) = 2
    /\ Get(ValueSchema, "type", "string") = "array"
    /\ result.k = "return"
    /\ HasFormat("account", result.v)

\* C7 as stated: accountArn matches the account rule, which wins, so a
\* 12-digit account id comes out
C7_AccountArnYieldsAccountId ==
    (ValueDone /\ ValueName = "accountArn")
        => (result.k = "return" /\ result.v.t = "str" /\ IsAccountId(result.v.s))

\* C7 as amended: accountArn matches the ARN rule only, and an ARN whose
\* service token is account comes out, not an account id
C7_AccountArnYieldsArn ==
    (ValueDone /\ ValueName = "accountArn")
        => /\ MatchingRules(ValueName) = {5}
           /\ result.k = "return"
           /\ result.v.t = "str"
           /\ StartsWith(result.v.s, "arn:aws:account:" \o DEFAULT_REGION \o ":")
           /\ \E a \in generate_aws_account_id, r \in ResourceIds :
                 result.v.s = "arn:aws:account:" \o DEFAULT_REGION \o ":" \o a \o ":resource/" \o r
           /\ ~IsAccountId(result.v.s)

C7_Witness ==
    /\ ValueDone
    /\ ValueName = "accountArn"
    /\ result.k = "return"
    /\ StartsWith(result.v.s, "arn:aws:account:")

\* Two runs on the same schema document, the second one just ended
TwoRuns == ReturnedEvent /\ last.some

\* C8 as stated: two runs that include the same optional properties give
\* events of the same shape
C8_SameInclusionSameShape ==
    (TwoRuns /\ incl = last.incl) => Shape(result.v) = last.shape

\* C8 as amended: two runs that include the same optional properties and draw
\* the same array lengths and the same keys for property-less objects give
\* events of the same shape
C8_SameDrawsSameShape ==
    (TwoRuns /\ incl = last.incl /\ fanout = last.fanout) => Shape(result.v) = last.shape

\* A second run that made inclusion and fan-out draws, the same as the first
C8_Witness ==
    /\ TwoRuns
    /\ incl = last.incl
    /\ fanout = last.fanout
    /\ Len(incl) > 0
    /\ \E j \in 1..Len(incl) : ~incl[j]
    /\ Len(fanout) > 0
    /\ Shape(result.v) = last.shape

ArrayFrames == {j \in 1..Len(stack) : stack[j].fn = "generate_value_for_property"}

\* The items descriptor is a reference to a component of the table
ItemsResolve(frame) ==
    /\ IsMapping(frame.items_schema)
    /\ "$ref" \in DOMAIN frame.items_schema
    /\ SplitLast(frame.items_schema["$ref"], "/") \in DOMAIN schema_components.table

\* C9: a $ref that is the items descriptor of an array is dereferenced: each
\* element is the materialized referenced object
C9_ItemsReferenceDereferenced ==
    \A j \in ArrayFrames :
        ItemsResolve(stack[j]) =>
            \A e \in 1..Len(stack[j].acc) :
                /\ stack[j].acc[e].t = "obj"
                /\ DOMAIN stack[j].acc[e].f \subseteq
                      PropNames(Declared(schema_components.table[
                          SplitLast(stack[j].items_schema["$ref"], "/")]))

\* C10: value synthesis never fails, malformed descriptors and dangling
\* references included: no invocation ends in an exception raised over a
\* property descriptor
C10_SynthesisNeverFails ==
    Done => ~(result.k = "raise" /\ result.exc \in {"AttributeError", "TypeError"})

\* The running invocation's next step reads the components table: lines 184
\* and 185 for the root's detail reference, lines 116 and 117 for a property
\* that is a reference
ResolvesReference ==
    \/ pc = "lookup"
    \/ pc = "component"
    \/ /\ pc = "detail"
       /\ LET detail == PropGet(Get(local.aws_event_schema, "properties", <<>>), "detail", EmptyMap)
          IN IsMapping(detail) /\ Get(detail, "$ref", "") # ""
    \/ /\ InObject
       /\ MoreProperties(Top)
       /\ LET prop == Top.schema.properties[Top.i]
          IN IsMapping(prop.schema) /\ "$ref" \in DOMAIN prop.schema

\* The table a reference of the running invocation is resolved against is
\* the one line 140 of this invocation took from its own document
OwnTable ==
    schema_components.defined /\ schema_components.table = ComponentsOf(local.schema)

\* C11: invocations of generate_event_from_schema share no mutable state:
\* whenever an invocation resolves a reference, in any sequence of
\* invocations and in any interleaving of two of them, the components table
\* it reads is the table of its own schema document
C11_ResolvesAgainstOwnTable ==
    (EventCall /\ ResolvesReference) => OwnTable

\* The components the reference properties of node name, those of the
\* objects and items nested in it included; with required_only, the
\* properties listed in required only (line 110 always takes those)
RECURSIVE References(_, _)
References(node, required_only) ==
    IF ~IsMapping(node) THEN {}
    ELSE (IF "items" \in DOMAIN node THEN References(node["items"], required_only) ELSE {})
         \cup
         (IF "properties" \notin DOMAIN node THEN {}
          ELSE UNION { LET prop == node["properties"][j] IN
                       IF required_only /\ ~InList(prop.name, Get(node, "required", <<>>)) THEN {}
                       ELSE IF ~IsMapping(prop.schema) THEN {}
                       ELSE IF "$ref" \in DOMAIN prop.schema
                            THEN {SplitLast(prop.schema["$ref"], "/")}
                            ELSE References(prop.schema, required_only)
                     : j \in 1..Len(node["properties"]) })

\* The reference graph of a components table: lines 114-117 follow a
\* reference only to a component the table has
RefGraph(table, required_only) ==
    [c \in DOMAIN table |-> References(table[c], required_only) \cap DOMAIN table]

RECURSIVE Closure(_, _)
Closure(graph, from) ==
    LET further == from \cup UNION {graph[c] : c \in from}
    IN IF further = from THEN from ELSE Closure(graph, further)

OnCycle(graph, c) == c \in Closure(graph, graph[c])

Acyclic(graph) == \A c \in DOMAIN graph : ~OnCycle(graph, c)

\* The root's detail property refers to a component of the table, so line
\* 185 calls generate_object_from_schema on it
DetailResolves(doc) ==
    /\ HasRoot(doc)
    /\ LET detail == PropGet(Get(RootOf(doc), "properties", <<>>), "detail", EmptyMap) IN
        /\ IsMapping(detail)
        /\ "$ref" \in DOMAIN detail
        /\ SplitLast(detail["$ref"], "/") \in DOMAIN ComponentsOf(doc)

DetailComponent(doc) ==
    SplitLast(PropGet(RootOf(doc)["properties"], "detail", EmptyMap)["$ref"], "/")

\* Materialization of the detail component meets, through required reference
\* properties only, a component that is reachable from itself that way
RequiredCycleAhead(doc) ==
    LET graph == RefGraph(ComponentsOf(doc), TRUE)
    IN \E c \in Closure(graph, {DetailComponent(doc)}) : OnCycle(graph, c)

\* The invocation called generate_object_from_schema and has ended
Materialized == Done /\ EventCall /\ File.ok /\ DetailResolves(File.doc)

\* C12: generate_object_from_schema has no cycle guard: where a component is
\* reachable from itself through required reference properties,
\* materialization never returns and recurses to whatever depth the
\* interpreter allows; where the reference graph is acyclic, materialization
\* returns, whatever the random draws
C12_ReturnsExactlyWhenAcyclic ==
    Materialized =>
        /\ RequiredCycleAhead(File.doc)
              => (result.k = "raise" /\ result.exc = "RecursionError")
        /\ Acyclic(RefGraph(ComponentsOf(File.doc), FALSE)) => result.k = "return"

\* With malformed descriptors counted in: a required cycle always ends in
\* the interpreter's RecursionError, and an acyclic reference graph never
\* does
OverflowExactlyOnRequiredCycle ==
    Materialized =>
        /\ RequiredCycleAhead(File.doc)
              => (result.k = "raise" /\ result.exc = "RecursionError")
        /\ Acyclic(RefGraph(ComponentsOf(File.doc), FALSE))
              => ~(result.k = "raise" /\ result.exc = "RecursionError")

\* The recursion on a cyclic schema is as deep as the interpreter allows
DeepestRecursion ==
    /\ EventCall
    /\ File.ok
    /\ DetailResolves(File.doc)
    /\ RequiredCycleAhead(File.doc)
    /\ Len(stack) = MaxDepth

\* While a schema with an acyclic reference graph is materialized, no
\* component has two frames on the stack
AcyclicNeverReenters ==
    (EventCall /\ pc \in {"materialize", "component"} /\ File.ok /\ DetailResolves(File.doc)
        /\ schema_components.table = ComponentsOf(File.doc)
        /\ Acyclic(RefGraph(ComponentsOf(File.doc), FALSE)))
    => \A j, k \in 1..Len(stack) :
            (j < k /\ stack[j].fn = "generate_object_from_schema"
                   /\ stack[k].fn = "generate_object_from_schema")
                => stack[j].schema # stack[k].schema

\* When one invocation follows another, the second read of the global finds
\* what the first read found: no invocation ends in KeyError
NoKeyError == Done => ~(result.k = "raise" /\ result.exc = "KeyError")

====
